---- MODULE Spec2Model ----
(***************************************************************************)
(* Model of examples_ltnw/multilabel_classification_axiomatized.py.        *)
(*                                                                         *)
(* The script is a straight-line module-level program.  pc is the source   *)
(* line of the next statement to execute.  Coordinates are modelled on a   *)
(* grid of tenths (a point <<x, y>> stands for (x/10, y/10)), so squared    *)
(* distances are integers in hundredths and the threshold .09 is 9.        *)
(* The external wrapper library (ltnw) is modelled by the log of the calls *)
(* the script makes into it; each call either returns or raises.  The     *)
(* values the library returns (sat_level, result) are opaque to the script *)
(* and are modelled as tokens.                                             *)
(***************************************************************************)
EXTENDS Integers, Sequences, FiniteSets, TLC

\* Largest number of samples explored (the script fixes nr_samples=1000).
MaxSamples == 3

\* max_iterations=20000 (line 11)
max_iterations == 20000

\* initial_sat_level_threshold=.1 (line 35), in hundredths
initial_sat_level_threshold == 10

\* The centre [.5,.5] of the circle (lines 14, 15), in tenths
Center == <<5, 5>>

\* The threshold .09 on the squared distance (lines 14, 15), in hundredths
Threshold == 9

\* Grid points np.random.uniform can return for the training set (line 13):
\* two inside the circle, one exactly on its boundary, one outside.
Grid == {<<5, 5>>, <<3, 5>>, <<2, 5>>, <<9, 9>>}

\* Grid points np.random.uniform can return for the test set (line 49)
TestGrid == {<<5, 5>>, <<9, 9>>}

\* One past the last line of the script
End == 69

VARIABLES
    nr_samples,   \* line 10
    data,         \* line 13
    data_A,       \* lines 14, 16
    data_B,       \* lines 15, 16
    data_test,    \* line 49
    sat_level,    \* line 36
    result,       \* lines 39, 44, 51, 57
    log,          \* calls made into ltnw, in order, with their outcome
    plots,        \* calls made into matplotlib.pyplot, in order
    out,          \* lines printed on stdout
    failed,       \* an exception left the script
    pc            \* line of the next statement

vars == <<nr_samples, data, data_A, data_B, data_test, sat_level, result,
          log, plots, out, failed, pc>>

----------------------------------------------------------------------------
(* Pure helpers                                                            *)

\* min(a, b)
MinMutMax(a, b) == IF a < b THEN b ELSE a
Min(a, b) == IF a < b THEN a ELSE b

\* np.sum(np.square(p-[.5,.5]))
SqDist(p) ==
    (p[1] - Center[1]) * (p[1] - Center[1]) + (p[2] - Center[2]) * (p[2] - Center[2])

\* The mask of line 14: ... < .09
InAMutClosed(p) == SqDist(p) <= Threshold
InA(p) == SqDist(p) < Threshold

\* The mask of line 15: ... >= .09
InB(p) == SqDist(p) >= Threshold

\* np.where(mask): the indices where the boolean array holds, in increasing order
RECURSIVE WhereUpTo(_, _)
WhereUpTo(mask, n) ==
    IF n = 0 THEN <<>>
    ELSE IF mask[n] THEN Append(WhereUpTo(mask, n - 1), n)
         ELSE WhereUpTo(mask, n - 1)

Where(mask) == WhereUpTo(mask, Len(mask))

\* d[idx]: the rows of d at the given indices
Rows(d, idx) == [k \in 1..Len(idx) |-> d[idx[k]]]

\* s[:n,:] for n >= 0
TakeMutAll(s, n) == s
TakeMutLast(s, n) ==
    IF n < Len(s) THEN [k \in 1..n |-> s[Len(s) - n + k]] ELSE s
Take(s, n) ==
    IF n < Len(s) THEN [k \in 1..n |-> s[k]] ELSE s

\* np.random.uniform([0,0],[1.,1.],(n,2)): any n points of the grid
Uniform(n, G) == [1..n -> G]

----------------------------------------------------------------------------
(* The statements of the script                                            *)

\* Lines that hold a statement, from line 13 on
Lines == {13, 14, 15, 16, 18, 19, 20, 22, 23, 25, 26, 27, 29, 30, 32, 33,
          35, 36, 38, 39, 40, 41, 42, 44, 45, 46, 47, 49, 50, 51, 53, 54,
          55, 57, 58, 59, 60, 61, 63, 64, 65, 66, 67, 68}

\* Lines whose statement calls into ltnw
LtnwLines == {22, 23, 25, 26, 27, 29, 30, 32, 33, 35, 36, 39, 44, 50, 51,
              57, 63, 64, 65, 66, 67, 68}

\* Lines whose statement calls into matplotlib.pyplot
PltLines == {38, 40, 41, 42, 45, 46, 47, 53, 54, 55, 58, 59, 60, 61}

\* Lines whose statement prints
PrintLines == {18, 19, 20, 65, 66, 67, 68}

\* The statement after line l: the script has no branch, loop or handler
NextLineSwapped(l) ==
    CASE l = 33 -> 36
      [] l = 36 -> 35
      [] l = 35 -> 38
      [] OTHER -> IF \E m \in Lines : m > l
                  THEN CHOOSE m \in Lines : m > l /\ \A k \in Lines : k > l => m <= k
                  ELSE End
NextLineGuarded(l) ==
    IF l = 20 /\ (Len(data_A) = 0 \/ Len(data_B) = 0) THEN End
    ELSE IF \E m \in Lines : m > l
         THEN CHOOSE m \in Lines : m > l /\ \A k \in Lines : k > l => m <= k
         ELSE End
NextLine(l) ==
    IF \E m \in Lines : m > l
    THEN CHOOSE m \in Lines : m > l /\ \A k \in Lines : k > l => m <= k
    ELSE End

\* The script runs on until an exception leaves it: nothing catches one
RunningMutCaught == TRUE
Running == ~failed

\* The words of the language of formulas that are not symbols
Keywords == {"forall", ":", "(", ")", "->", "~"}

\* The expression string passed by the call on line l, as its tokens
ExprMutEarly(l) ==
    CASE l = 29 -> <<"forall", "?data_A", ":", "A", "(", "?data_A", ")">>
      [] l = 30 -> <<"forall", "?data_B", ":", "B", "(", "?data_B", ")">>
      [] l = 32 -> <<"forall", "?data", ":", "A", "(", "?data", ")", "->",
                     "~", "B", "(", "?data", ")">>
      [] l = 33 -> <<"forall", "?data", ":", "~", "B", "(", "?data", ")", "->",
                     "A", "(", "?data", ")">>
      [] l = 39 -> <<"A", "(", "?data", ")">>
      [] l = 44 -> <<"B", "(", "?data_test", ")">>
      [] l = 51 -> <<"A", "(", "?data_test", ")">>
      [] l = 57 -> <<"B", "(", "?data_test", ")">>
      [] l = 65 -> <<"A", "(", "a", ")">>
      [] l = 66 -> <<"A", "(", "b", ")">>
      [] l = 67 -> <<"B", "(", "a", ")">>
      [] l = 68 -> <<"B", "(", "b", ")">>
      [] OTHER -> <<>>
Expr(l) ==
    CASE l = 29 -> <<"forall", "?data_A", ":", "A", "(", "?data_A", ")">>
      [] l = 30 -> <<"forall", "?data_B", ":", "B", "(", "?data_B", ")">>
      [] l = 32 -> <<"forall", "?data", ":", "A", "(", "?data", ")", "->",
                     "~", "B", "(", "?data", ")">>
      [] l = 33 -> <<"forall", "?data", ":", "~", "B", "(", "?data", ")", "->",
                     "A", "(", "?data", ")">>
      [] l = 39 -> <<"A", "(", "?data", ")">>
      [] l = 44 -> <<"B", "(", "?data", ")">>
      [] l = 51 -> <<"A", "(", "?data_test", ")">>
      [] l = 57 -> <<"B", "(", "?data_test", ")">>
      [] l = 65 -> <<"A", "(", "a", ")">>
      [] l = 66 -> <<"A", "(", "b", ")">>
      [] l = 67 -> <<"B", "(", "a", ")">>
      [] l = 68 -> <<"B", "(", "b", ")">>
      [] OTHER -> <<>>

\* The tensor bound by the ltnw.variable call on line l
BindingMutBalanced(l) ==
    CASE l = 25 -> data_A
      [] l = 26 -> data_B
      [] l = 27 -> data_A \o data_B
      [] l = 50 -> data_test
Binding(l) ==
    CASE l = 25 -> data_A
      [] l = 26 -> data_B
      [] l = 27 -> data
      [] l = 50 -> data_test

\* The call into ltnw made on line l: the function, the symbol it names,
\* its expression string (as tokens) and its other argument (the
\* coordinates of a constant are in hundredths)
LtnwCall(l) ==
    CASE l = 22 -> [op |-> "predicate", sym |-> "A", toks |-> <<>>, val |-> 2]
      [] l = 23 -> [op |-> "predicate", sym |-> "B", toks |-> <<>>, val |-> 2]
      [] l = 25 -> [op |-> "variable", sym |-> "?data_A", toks |-> <<>>, val |-> Binding(l)]
      [] l = 26 -> [op |-> "variable", sym |-> "?data_B", toks |-> <<>>, val |-> Binding(l)]
      [] l = 27 -> [op |-> "variable", sym |-> "?data", toks |-> <<>>, val |-> Binding(l)]
      [] l \in {29, 30, 32, 33} ->
                   [op |-> "formula", sym |-> "", toks |-> Expr(l), val |-> 0]
      [] l = 35 -> [op |-> "initialize_knowledgebase", sym |-> "", toks |-> <<>>,
                    val |-> initial_sat_level_threshold]
      [] l = 36 -> [op |-> "train", sym |-> "", toks |-> <<>>, val |-> max_iterations]
      [] l \in {39, 44, 51, 57, 65, 66, 67, 68} ->
                   [op |-> "ask", sym |-> "", toks |-> Expr(l), val |-> 0]
      [] l = 50 -> [op |-> "variable", sym |-> "?data_test", toks |-> <<>>, val |-> Binding(l)]
      [] l = 63 -> [op |-> "constant", sym |-> "a", toks |-> <<>>, val |-> <<50, 50>>]
      [] l = 64 -> [op |-> "constant", sym |-> "b", toks |-> <<>>, val |-> <<75, 75>>]

\* The call into matplotlib.pyplot made on line l
PltCall(l) ==
    CASE l = 38 -> [op |-> "figure", arg |-> "10,8"]
      [] l = 40 -> [op |-> "subplot", arg |-> "2,2,1"]
      [] l = 41 -> [op |-> "title", arg |-> "A(x) - training"]
      [] l = 45 -> [op |-> "subplot", arg |-> "2,2,2"]
      [] l = 46 -> [op |-> "title", arg |-> "B(x) - training"]
      [] l = 53 -> [op |-> "subplot", arg |-> "2,2,3"]
      [] l = 54 -> [op |-> "title", arg |-> "A(x) - test"]
      [] l = 58 -> [op |-> "subplot", arg |-> "2,2,4"]
      [] l = 60 -> [op |-> "title", arg |-> "B(x) -test"]
      [] l = 61 -> [op |-> "show", arg |-> ""]
      [] l \in {42, 47, 55, 59} -> [op |-> "scatter", arg |-> result]

\* The format string of the print on line l
Format(l) ==
    CASE l = 18 -> "# samples data_A: %s"
      [] l = 19 -> "# samples data_B: %s"
      [] l = 20 -> "# samples data: %s"
      [] l = 65 -> "a is in A: %s"
      [] l = 66 -> "b is in A: %s"
      [] l = 67 -> "a is in B: %s"
      [] l = 68 -> "b is in B: %s"

\* The value ltnw.ask returns for an expression: opaque to the script, it
\* is named after the expression and the line that asked for it
AskResult(l) == "ask@" \o ToString(l)

----------------------------------------------------------------------------
(* The state before line 13 runs                                           *)

Init ==
    /\ nr_samples \in 1..MaxSamples
    /\ data = <<>>
    /\ data_A = <<>>
    /\ data_B = <<>>
    /\ data_test = <<>>
    /\ sat_level = "unset"
    /\ result = "unset"
    /\ log = <<>>
    /\ plots = <<>>
    /\ out = <<>>
    /\ failed = FALSE
    /\ pc = 13

----------------------------------------------------------------------------
(* One action per statement kind                                           *)

\* line 13: data=np.random.uniform(...)
Generate ==
    /\ Running /\ pc = 13
    /\ \E d \in Uniform(nr_samples, Grid) : data' = d
    /\ pc' = NextLine(pc)
    /\ UNCHANGED <<nr_samples, data_A, data_B, data_test, sat_level, result,
                   log, plots, out, failed>>

\* line 14: data_A=data[np.where(... <.09)]
PartitionA ==
    /\ Running /\ pc = 14
    /\ data_A' = Rows(data, Where([i \in 1..Len(data) |-> InA(data[i])]))
    /\ pc' = NextLine(pc)
    /\ UNCHANGED <<nr_samples, data, data_B, data_test, sat_level, result,
                   log, plots, out, failed>>

\* line 15: data_B=data[np.where(... >=.09)]
PartitionB ==
    /\ Running /\ pc = 15
    /\ data_B' = Rows(data, Where([i \in 1..Len(data) |-> InB(data[i])]))
    /\ pc' = NextLine(pc)
    /\ UNCHANGED <<nr_samples, data, data_A, data_test, sat_level, result,
                   log, plots, out, failed>>

\* line 16: the right-hand tuple is evaluated before either name is rebound
Balance ==
    /\ Running /\ pc = 16
    /\ data_A' = Take(data_A, Min(Len(data_A), Len(data_B)))
    /\ data_B' = Take(data_B, Min(Len(data_A), Len(data_B)))
    /\ pc' = NextLine(pc)
    /\ UNCHANGED <<nr_samples, data, data_test, sat_level, result,
                   log, plots, out, failed>>

\* lines 18-20: print the three lengths
PrintLen ==
    /\ Running /\ pc \in {18, 19, 20}
    /\ out' = Append(out, [fmt |-> Format(pc),
                           arg |-> ToString(CASE pc = 18 -> Len(data_A)
                                              [] pc = 19 -> Len(data_B)
                                              [] pc = 20 -> Len(data))])
    /\ pc' = NextLine(pc)
    /\ UNCHANGED <<nr_samples, data, data_A, data_B, data_test, sat_level,
                   result, log, plots, failed>>

\* a call into ltnw that returns (lines 22-36, 39, 44, 50, 51, 57, 63-68)
LtnwReturn ==
    /\ Running /\ pc \in LtnwLines
    /\ log' = Append(log, [call |-> LtnwCall(pc), line |-> pc, ok |-> TRUE])
    /\ sat_level' = IF pc = 36 THEN "returned" ELSE sat_level
    /\ result' = IF pc \in {39, 44, 51, 57} THEN AskResult(pc) ELSE result
    /\ out' = IF pc \in PrintLines
              THEN Append(out, [fmt |-> Format(pc), arg |-> AskResult(pc)])
              ELSE out
    /\ pc' = NextLine(pc)
    /\ UNCHANGED <<nr_samples, data, data_A, data_B, data_test, plots, failed>>

\* a call into ltnw that raises: the exception leaves the script
LtnwRaise ==
    /\ Running /\ pc \in LtnwLines
    /\ log' = Append(log, [call |-> LtnwCall(pc), line |-> pc, ok |-> FALSE])
    /\ failed' = TRUE
    /\ UNCHANGED <<nr_samples, data, data_A, data_B, data_test, sat_level,
                   result, plots, out, pc>>

\* lines 38-61: the calls into matplotlib.pyplot
Plot ==
    /\ Running /\ pc \in PltLines
    /\ plots' = Append(plots, PltCall(pc))
    /\ pc' = NextLine(pc)
    /\ UNCHANGED <<nr_samples, data, data_A, data_B, data_test, sat_level,
                   result, log, out, failed>>

\* line 49: data_test=np.random.uniform(...)
GenerateTest ==
    /\ Running /\ pc = 49
    /\ \E d \in Uniform(nr_samples, TestGrid) : data_test' = d
    /\ pc' = NextLine(pc)
    /\ UNCHANGED <<nr_samples, data, data_A, data_B, sat_level, result,
                   log, plots, out, failed>>

Next ==
    \/ Generate
    \/ PartitionA
    \/ PartitionB
    \/ Balance
    \/ PrintLen
    \/ LtnwReturn
    \/ LtnwRaise
    \/ Plot
    \/ GenerateTest

Spec == Init /\ [][Next]_vars

----------------------------------------------------------------------------
(* Vocabulary of the properties                                            *)

\* Positions of data whose point lies strictly inside the circle
Inside == {i \in DOMAIN data : SqDist(data[i]) < 9}

\* Positions of data whose point lies on or outside the circle
Outside == {i \in DOMAIN data : SqDist(data[i]) >= 9}

\* The smaller of the two class sizes of data
Smaller ==
    IF Cardinality(Inside) < Cardinality(Outside)
    THEN Cardinality(Inside) ELSE Cardinality(Outside)

\* The k-th smallest position of a set of positions
Kth(S, k) == CHOOSE i \in S : Cardinality({j \in S : j < i}) = k - 1

\* The first n points of data at the positions S, in the order of data
FirstOf(S, n) == [k \in 1..n |-> data[Kth(S, k)]]

\* The step that executes line 16
BalanceStep == pc = 16 /\ pc' # 16

\* The circle captured no point or every point of data
Degenerate == pc > 13 /\ (Inside = {} \/ Outside = {})

\* Positions of the log that hold a call to the given function
Calls(op) == {i \in DOMAIN log : log[i].call.op = op}

\* Some call before position i of the log registered the symbol s
Registered(s, i) ==
    \E j \in 1..(i - 1) :
        /\ log[j].call.op \in {"predicate", "variable", "constant"}
        /\ log[j].call.sym = s
        /\ log[j].ok

\* The symbols an expression mentions
Symbols(toks) == {toks[i] : i \in DOMAIN toks} \ Keywords

----------------------------------------------------------------------------
(* C1: after the balancing step of line 16, data_A and data_B have the     *)
(* same number of points, whatever the mix of the sample set.              *)
C1_EqualLength == pc > 16 => Len(data_A) = Len(data_B)

\* C1 witness: balancing cut a non-empty class down to the other's size
C1_Witness ==
    /\ pc > 16
    /\ Len(data_A) >= 1
    /\ Len(data_A) = Len(data_B)
    /\ Cardinality(Inside) # Cardinality(Outside)

(* C2: after partitioning and balancing, every point of data_A is at       *)
(* squared distance < 0.09 from the centre and every point of data_B at    *)
(* squared distance >= 0.09; a point at exactly 0.09 is never in data_A    *)
(* and no point is in both classes.                                        *)
C2_HalfOpenBoundary ==
    pc > 16 =>
        /\ \A i \in DOMAIN data_A : SqDist(data_A[i]) < 9
        /\ \A i \in DOMAIN data_B : SqDist(data_B[i]) >= 9
        /\ \A i \in DOMAIN data_A : SqDist(data_A[i]) # 9
        /\ \A i \in DOMAIN data_A : \A j \in DOMAIN data_B : data_A[i] # data_B[j]

\* C2 witness: a point exactly on the boundary was kept, in data_B
C2_Witness ==
    /\ pc > 16
    /\ Len(data_A) >= 1
    /\ \E j \in DOMAIN data_B : SqDist(data_B[j]) = 9

(* C3: the step of line 16 leaves len(data_A) + len(data_B) equal to twice *)
(* the smaller of the two class sizes it started from, which is at most    *)
(* len(data) and equals len(data) only when the two classes had equal size *)
(* before the truncation.                                                  *)
C3_SumTwiceMin ==
    [][BalanceStep =>
        /\ Len(data_A') + Len(data_B') <= Len(data')
        /\ Len(data_A') + Len(data_B') =
               2 * (IF Len(data_A) < Len(data_B) THEN Len(data_A) ELSE Len(data_B))
        /\ (Len(data_A') + Len(data_B') = Len(data') => Len(data_A) = Len(data_B))
      ]_vars

\* C3 witness: points were discarded, the sum is below len(data)
C3_Witness ==
    /\ pc > 16
    /\ Len(data_A) + Len(data_B) >= 2
    /\ Len(data_A) + Len(data_B) < Len(data)

C6_PipelineOrder ==
    /\ Cardinality(Calls("initialize_knowledgebase")) <= 1
    /\ Cardinality(Calls("train")) <= 1
    /\ pc > 35 => Cardinality(Calls("initialize_knowledgebase")) = 1
    /\ pc > 36 => Cardinality(Calls("train")) = 1
    /\ \A i \in Calls("initialize_knowledgebase") :
          /\ log[i].call.val = 10
          /\ \A s \in {"A", "B", "?data_A", "?data_B", "?data"} : Registered(s, i)
          /\ Cardinality({f \in Calls("formula") : f < i /\ log[f].ok}) = 4
    /\ \A f \in Calls("formula") : \A i \in Calls("initialize_knowledgebase") : f < i
    /\ \A t \in Calls("train") :
          /\ log[t].call.val = 20000
          /\ \E i \in Calls("initialize_knowledgebase") : i < t /\ log[i].ok
    /\ \A a \in Calls("ask") : \E t \in Calls("train") : t < a /\ log[t].ok

\* C6 witness: a run that went through the whole pipeline
C6_Witness ==
    /\ pc = End
    /\ ~failed
    /\ Cardinality(Calls("ask")) = 8

(* C7: when the circle captures no point or every point, one class is      *)
(* empty and the script does not stop: unless a library call raises, it    *)
(* registers the variables over the (empty) classes and the four formulas  *)
(* and goes on to initialize_knowledgebase and train.                      *)
C7_NoGuardOnEmptyClass ==
    Degenerate =>
        /\ pc > 15 => (data_A = <<>> \/ data_B = <<>>)
        /\ pc > 16 => (data_A = <<>> /\ data_B = <<>>)
        /\ (pc > 36 /\ ~failed) =>
              /\ \E i \in Calls("variable") :
                    log[i].call.sym = "?data_A" /\ log[i].call.val = <<>>
              /\ \E i \in Calls("variable") :
                    log[i].call.sym = "?data_B" /\ log[i].call.val = <<>>
              /\ Cardinality(Calls("formula")) = 4
              /\ Cardinality(Calls("initialize_knowledgebase")) = 1
              /\ \E t \in Calls("train") : log[t].ok

\* C7 witness: training has returned on a sample set wholly inside the circle
C7_Witness ==
    /\ Degenerate
    /\ Outside = {}
    /\ Len(data) >= 2
    /\ sat_level = "returned"

(* C8: a library call that raises ends the script at that call: the call   *)
(* is the last entry of the log, nothing else changes with it, and from    *)
(* then on no step is taken (no retry, no later registration, training,    *)
(* query, plot or print).                                                  *)
C8_FailureTerminates ==
    [][/\ failed => UNCHANGED vars
       /\ (~failed /\ failed') =>
             /\ pc \in LtnwLines
             /\ log' = Append(log, [call |-> LtnwCall(pc), line |-> pc, ok |-> FALSE])
             /\ UNCHANGED <<pc, out, plots, result, sat_level>>
      ]_vars

\* C8 witness: train raised
C8_Witness ==
    /\ failed
    /\ pc = 36
    /\ log[Len(log)].call.op = "train"
    /\ ~log[Len(log)].ok

(* C9: data is generated once on line 13 and never modified afterwards: it *)
(* keeps all nr_samples points through partition and balancing, and ?data  *)
(* is bound to that full set while ?data_A and ?data_B are bound to the    *)
(* balanced subsets.                                                       *)
C9_DataImmutable ==
    /\ [](pc > 13 => Len(data) = nr_samples)
    /\ [](\A i \in Calls("variable") :
             /\ log[i].call.sym = "?data" =>
                   log[i].call.val = data /\ Len(log[i].call.val) = nr_samples
             /\ log[i].call.sym = "?data_A" =>
                   log[i].call.val = data_A /\ Len(log[i].call.val) = Smaller
             /\ log[i].call.sym = "?data_B" =>
                   log[i].call.val = data_B /\ Len(log[i].call.val) = Smaller)
    /\ [][pc # 13 => data' = data]_vars

\* C9 witness: ?data is bound after balancing discarded points
C9_Witness ==
    /\ \E i \in Calls("variable") : log[i].call.sym = "?data" /\ log[i].ok
    /\ Len(data_A) + Len(data_B) < Len(data)
    /\ Len(data_A) >= 1

(* C10: every formula and every ask mentions only symbols that an earlier  *)
(* call registered; ?data_test, a and b appear in no formula.              *)
C10_SymbolsRegisteredFirst ==
    /\ \A i \in Calls("formula") \cup Calls("ask") :
          \A s \in Symbols(log[i].call.toks) : Registered(s, i)
    /\ \A i \in Calls("formula") :
          Symbols(log[i].call.toks) \cap {"?data_test", "a", "b"} = {}

\* C10 witness: the last ask of the script, about the constant b
C10_Witness ==
    /\ pc = End
    /\ ~failed
    /\ "b" \in Symbols(log[Len(log)].call.toks)

====
